---- MODULE Spec2Model ----
\* Model of the NASA explorer client's API layer (src/src/services/api.js):
\* the error taxonomy, fetchWithRetry, withRetry, apiService.fetchAPOD,
\* apiService.healthCheck and apiService.validateDate.
EXTENDS Integers, Sequences, FiniteSets, TLC

\* ---------------------------------------------------------------------------
\* Bounds of the model (not program constants)
\* ---------------------------------------------------------------------------

\* Largest number of request-timeout timers that may be pending at once.
MaxTimers == 4

\* Number of withRetry calls that may be in progress at the same time.
MaxCalls == 2

\* The viewer: the fetchAPOD calls awaiting a result plus the pending
\* auto-retry timers, and the failures counted by the viewer's retryCount,
\* which also limits a chain of attempts to one more, in SpecViewer and in
\* SpecOverlap; the cancelled utterances whose event is outstanding plus the
\* pending restart timers, and the failures counted, in SpecNarration.
MaxPending == 1
MaxFailures == 3
MaxOverlap == 2
MaxOverlapFailures == 1
MaxSpeechPending == 2
MaxNarrationFailures == 1

\* ---------------------------------------------------------------------------
\* Program constants
\* ---------------------------------------------------------------------------

\* ErrorTypes (api.js:4-11)
ErrorTypes ==
  [NETWORK |-> "NETWORK_ERROR", SERVER |-> "SERVER_ERROR", CLIENT |-> "CLIENT_ERROR",
   UNKNOWN |-> "UNKNOWN_ERROR", RATE_LIMIT |-> "RATE_LIMIT_ERROR",
   VALIDATION |-> "VALIDATION_ERROR"]

SixKinds ==
  {ErrorTypes.NETWORK, ErrorTypes.SERVER, ErrorTypes.CLIENT,
   ErrorTypes.UNKNOWN, ErrorTypes.RATE_LIMIT, ErrorTypes.VALIDATION}

\* RETRY_CONFIG (api.js:26-31)
RETRY_CONFIG ==
  [maxRetries |-> 3, baseDelay |-> 1000, maxDelay |-> 10000, backoffMultiplier |-> 2]

\* ---------------------------------------------------------------------------
\* Values: thrown errors and returned values share one record shape
\* ---------------------------------------------------------------------------

\* status -1 stands for "no status property" (undefined).
NoStatus == -1

NoOutcome ==
  [kind |-> "none", cls |-> "none", type |-> "none", status |-> NoStatus,
   retryable |-> FALSE, msg |-> "none", seq |-> 0]

\* new APIError(message, type, status, retryable) (api.js:14-23); seq is the
\* identity of the object: the invocation of the operation that created it.
APIError(message, type, status, retryable, seq) ==
  [kind |-> "error", cls |-> "APIError", type |-> type, status |-> status,
   retryable |-> retryable, msg |-> message, seq |-> seq]

\* An exception that is not an APIError (TypeError, SyntaxError, DOMException
\* AbortError, a plain Error with a status property, ...).
RawError(name, message, status, seq) ==
  [kind |-> "error", cls |-> name, type |-> "none", status |-> status,
   retryable |-> FALSE, msg |-> message, seq |-> seq]

\* A value returned by an operation.
Value(payload, seq) ==
  [kind |-> "value", cls |-> "none", type |-> "none", status |-> NoStatus,
   retryable |-> FALSE, msg |-> payload, seq |-> seq]

\* error.message.includes('fetch') over the messages of the model.
MessageIncludesFetch(m) ==
  m \in {"Failed to fetch", "NetworkError when attempting to fetch resource.",
         "fetch failed"}

\* calculateRetryDelay (api.js:34-37)
RECURSIVE Pow(_, _)
Pow(b, e) == IF e = 0 THEN 1 ELSE b * Pow(b, e - 1)

Min(a, b) == IF a < b THEN a ELSE b

\* The delay growing linearly instead of geometrically.
calculateRetryDelay_Linear(attempt) ==
  LET delay == RETRY_CONFIG.baseDelay * (attempt + 1)
  IN  Min(delay, RETRY_CONFIG.maxDelay)

calculateRetryDelay(attempt) ==
  LET delay == RETRY_CONFIG.baseDelay * Pow(RETRY_CONFIG.backoffMultiplier, attempt)
  IN  Min(delay, RETRY_CONFIG.maxDelay)

\* isRetryableError without its APIError branch: the retryable flag is never
\* consulted.
isRetryableError_NoFlag(error) ==
  IF error.cls = "TypeError" /\ MessageIncludesFetch(error.msg) THEN TRUE
  ELSE IF error.status >= 500 THEN TRUE
  ELSE FALSE

\* isRetryableError taking every TypeError for a network error, whatever its
\* message.
isRetryableError_AnyTypeError(error) ==
  IF error.cls = "APIError" THEN error.retryable
  ELSE IF error.cls = "TypeError" THEN TRUE
  ELSE IF error.status >= 500 THEN TRUE
  ELSE FALSE

\* isRetryableError (api.js:40-56)
isRetryableError(error) ==
  IF error.cls = "APIError" THEN error.retryable
  ELSE IF error.cls = "TypeError" /\ MessageIncludesFetch(error.msg) THEN TRUE
  ELSE IF error.status >= 500 THEN TRUE
  ELSE FALSE

\* ---------------------------------------------------------------------------
\* The environment's inputs
\* ---------------------------------------------------------------------------

\* HTTP statuses a response may carry.
Statuses == {200, 204, 299, 304, 399, 400, 404, 428, 429, 430, 499, 500, 503, 599}

\* What response.json() finds in the body:
\*   notJSON      the body does not parse (json() rejects with a SyntaxError)
\*   null         the JSON literal null
\*   empty        {}
\*   error        {error: {message: "..."}}
\*   successTrue  {success: true, data: {...}}
\*   successFalse {success: false}
Bodies == {"notJSON", "null", "empty", "error", "successTrue", "successFalse"}

\* Messages of the TypeError a failed fetch() rejects with (Chrome, Firefox,
\* Safari).
TransportMessages ==
  {"Failed to fetch", "NetworkError when attempting to fetch resource.", "Load failed"}

\* The operations handed to withRetry.
FetchOps == {"fetchAPOD", "healthCheck"}
Ops == FetchOps \cup {"mock"}

\* What one invocation of an arbitrary operation given to withRetry may do.
MockOutcomes(seq) ==
  { Value("Retry successful!", seq),
    APIError("Temporary server error", ErrorTypes.SERVER, 500, TRUE, seq),
    APIError("Too many requests", ErrorTypes.RATE_LIMIT, 429, TRUE, seq),
    APIError("Invalid request parameters.", ErrorTypes.CLIENT, 400, FALSE, seq),
    RawError("TypeError", "Failed to fetch", NoStatus, seq),
    RawError("TypeError", "Load failed", NoStatus, seq),
    RawError("Error", "Bad gateway", 502, seq),
    RawError("Error", "Not found", 404, seq) }

\* ---------------------------------------------------------------------------
\* fetchWithRetry (api.js:59-130)
\* ---------------------------------------------------------------------------

\* What fetch() settled with: a response (status, body), the timeout's abort,
\* or a transport failure (text is the TypeError's message).
NoWire == [tag |-> "none", status |-> NoStatus, text |-> "none"]

Response(status, body, seq) ==
  [kind |-> "response", cls |-> "none", type |-> "none", status |-> status,
   retryable |-> FALSE, msg |-> body, seq |-> seq]

\* response.ok
ResponseOk(status) == status >= 200 /\ status <= 299

\* The catch block without its AbortError branch.
fetchWithRetryCatch_NoAbort(error, seq) ==
  IF error.cls = "TypeError" /\ MessageIncludesFetch(error.msg)
    THEN APIError("Network error - please check your internet connection",
                  ErrorTypes.NETWORK, 0, TRUE, seq)
  ELSE IF error.cls = "APIError"
    THEN error
  ELSE APIError(error.msg, ErrorTypes.UNKNOWN, 0, FALSE, seq)

\* The catch block of fetchWithRetry (api.js:96-129).
fetchWithRetryCatch(error, seq) ==
  IF error.cls = "AbortError"
    THEN APIError("Request timeout - server took too long to respond",
                  ErrorTypes.NETWORK, 408, TRUE, seq)
  ELSE IF error.cls = "TypeError" /\ MessageIncludesFetch(error.msg)
    THEN APIError("Network error - please check your internet connection",
                  ErrorTypes.NETWORK, 0, TRUE, seq)
  ELSE IF error.cls = "APIError"
    THEN error
  ELSE APIError(error.msg, ErrorTypes.UNKNOWN, 0, FALSE, seq)

\* The classification with the Client branch taken from 300 on.
StatusClass_From300(status) ==
  IF status >= 500 THEN <<ErrorTypes.SERVER, TRUE>>
  ELSE IF status = 429 THEN <<ErrorTypes.RATE_LIMIT, TRUE>>
  ELSE IF status >= 300 THEN <<ErrorTypes.CLIENT, FALSE>>
  ELSE <<ErrorTypes.UNKNOWN, FALSE>>

\* The classification of a non-ok status (api.js:72-84): <<errorType, retryable>>.
StatusClass(status) ==
  IF status >= 500 THEN <<ErrorTypes.SERVER, TRUE>>
  ELSE IF status = 429 THEN <<ErrorTypes.RATE_LIMIT, TRUE>>
  ELSE IF status >= 400 THEN <<ErrorTypes.CLIENT, FALSE>>
  ELSE <<ErrorTypes.UNKNOWN, FALSE>>

\* What the try block throws for a non-ok response (api.js:71-93).
\* errorData = await response.json().catch(() => ({})): a body that does not
\* parse becomes {}; a null body makes errorData.error throw a TypeError.
NotOkThrow(status, body, seq) ==
  IF body = "null"
    THEN RawError("TypeError", "Cannot read properties of null (reading 'error')",
                  NoStatus, seq)
    ELSE APIError(IF body = "error" THEN "server message" ELSE "HTTP status line",
                  StatusClass(status)[1], status, StatusClass(status)[2], seq)

\* fetchWithRetry when fetch() resolves with a response.
fetchWithRetryResponse(status, body, seq) ==
  IF ResponseOk(status)
    THEN Response(status, body, seq)
    ELSE fetchWithRetryCatch(NotOkThrow(status, body, seq), seq)

\* fetchWithRetry when fetch() rejects with `error`.
fetchWithRetryReject(error, seq) == fetchWithRetryCatch(error, seq)

\* ---------------------------------------------------------------------------
\* The operations of apiService.fetchAPOD and apiService.healthCheck
\* ---------------------------------------------------------------------------

\* A body without success = true raised as a Server error that is not
\* retryable.
fetchAPODOperation_NotRetryable(r, seq) ==
  IF r.kind = "error" THEN r
  ELSE IF r.msg = "notJSON"
    THEN RawError("SyntaxError", "Unexpected token < in JSON", NoStatus, seq)
  ELSE IF r.msg = "null"
    THEN RawError("TypeError", "Cannot read properties of null (reading 'success')",
                  NoStatus, seq)
  ELSE IF r.msg # "successTrue"
    THEN APIError(IF r.msg = "error" THEN "server message"
                                     ELSE "Failed to fetch APOD data",
                  ErrorTypes.SERVER, r.status, FALSE, seq)
  ELSE Value("data.data", seq)

\* The function fetchAPOD hands to withRetry (api.js:155-169), given what
\* fetchWithRetry produced.
fetchAPODOperation(r, seq) ==
  IF r.kind = "error" THEN r
  ELSE IF r.msg = "notJSON"
    THEN RawError("SyntaxError", "Unexpected token < in JSON", NoStatus, seq)
  ELSE IF r.msg = "null"
    THEN RawError("TypeError", "Cannot read properties of null (reading 'success')",
                  NoStatus, seq)
  ELSE IF r.msg # "successTrue"
    THEN APIError(IF r.msg = "error" THEN "server message"
                                     ELSE "Failed to fetch APOD data",
                  ErrorTypes.SERVER, r.status, TRUE, seq)
  ELSE Value("data.data", seq)

\* The function healthCheck hands to withRetry (api.js:174-177).
healthCheckOperation(r, seq) ==
  IF r.kind = "error" THEN r
  ELSE IF r.msg = "notJSON"
    THEN RawError("SyntaxError", "Unexpected token < in JSON", NoStatus, seq)
  ELSE Value(r.msg, seq)

Operation(o, r, seq) ==
  IF o = "fetchAPOD" THEN fetchAPODOperation(r, seq) ELSE healthCheckOperation(r, seq)

\* ---------------------------------------------------------------------------
\* apiService.validateDate (api.js:181-217)
\* ---------------------------------------------------------------------------

\* The argument: null/undefined (present = FALSE) or a string, held as the
\* sequence of its characters.
NoDate == [present |-> FALSE, chars |-> <<>>]
Str(cs) == [present |-> TRUE, chars |-> cs]

DateInputs ==
  { NoDate,
    \* the empty string
    Str(<<>>),
    \* "1990-01-01": a date before the catalog start
    Str(<<"1", "9", "9", "0", "-", "0", "1", "-", "0", "1">>),
    \* "1995-06-15": the day before the catalog start
    Str(<<"1", "9", "9", "5", "-", "0", "6", "-", "1", "5">>),
    \* "1995-06-16": the catalog start
    Str(<<"1", "9", "9", "5", "-", "0", "6", "-", "1", "6">>),
    \* "2020-05-01": a date in range
    Str(<<"2", "0", "2", "0", "-", "0", "5", "-", "0", "1">>),
    \* "2026-11-05": today
    Str(<<"2", "0", "2", "6", "-", "1", "1", "-", "0", "5">>),
    \* "2026-11-06": tomorrow
    Str(<<"2", "0", "2", "6", "-", "1", "1", "-", "0", "6">>),
    \* "2027-11-05": a year ahead
    Str(<<"2", "0", "2", "7", "-", "1", "1", "-", "0", "5">>),
    \* "2020-13-01": month 13
    Str(<<"2", "0", "2", "0", "-", "1", "3", "-", "0", "1">>),
    \* "2021-02-30": a day the month does not have
    Str(<<"2", "0", "2", "1", "-", "0", "2", "-", "3", "0">>),
    \* "2020/05/01": slashes in place of the dashes
    Str(<<"2", "0", "2", "0", "/", "0", "5", "/", "0", "1">>),
    \* "2020-5-1": one-digit month and day
    Str(<<"2", "0", "2", "0", "-", "5", "-", "1">>),
    \* "invalid-date": not a date
    Str(<<"i", "n", "v", "a", "l", "i", "d", "-", "d", "a", "t", "e">>) }

Digits == {"0", "1", "2", "3", "4", "5", "6", "7", "8", "9"}

DigitVal(c) ==
  CASE c = "0" -> 0 [] c = "1" -> 1 [] c = "2" -> 2 [] c = "3" -> 3 [] c = "4" -> 4
    [] c = "5" -> 5 [] c = "6" -> 6 [] c = "7" -> 7 [] c = "8" -> 8 [] c = "9" -> 9

\* The pattern with any character accepted where the dashes belong.
dateRegexTest_AnySeparator(cs) ==
  /\ Len(cs) = 10
  /\ \A i \in {1, 2, 3, 4, 6, 7, 9, 10} : cs[i] \in Digits

\* /^\d{4}-\d{2}-\d{2}$/.test(date) (api.js:184-185)
dateRegexTest(cs) ==
  /\ Len(cs) = 10
  /\ \A i \in {1, 2, 3, 4, 6, 7, 9, 10} : cs[i] \in Digits
  /\ cs[5] = "-"
  /\ cs[8] = "-"

\* Days from 1970-01-01 to the first day of month m of year y, plus d - 1
\* (the proleptic Gregorian calendar of ECMAScript's MakeDay).
DaysFromCivil(y, m, d) ==
  LET yy  == IF m <= 2 THEN y - 1 ELSE y
      era == yy \div 400
      yoe == yy - era * 400
      mp  == IF m > 2 THEN m - 3 ELSE m + 9
      doy == (153 * mp + 2) \div 5 + d - 1
      doe == yoe * 365 + yoe \div 4 - yoe \div 100 + doy
  IN  era * 146097 + doe - 719468

IsLeap(y) == (y % 4 = 0 /\ y % 100 # 0) \/ y % 400 = 0

DaysInMonth(y, m) ==
  IF m = 2 THEN (IF IsLeap(y) THEN 29 ELSE 28)
  ELSE IF m \in {4, 6, 9, 11} THEN 30 ELSE 31

\* A Date: an instant as <<day number, millisecond of the day>> (UTC), or the
\* invalid date (time value NaN).
InvalidDate == [valid |-> FALSE, day |-> 0, ms |-> 0]
DateAt(day, ms) == [valid |-> TRUE, day |-> day, ms |-> ms]

\* new Date(s) for a string that has the shape YYYY-MM-DD: midnight UTC of
\* that day; NaN when the month is not 01-12 or the day not 01-31. For a day
\* the month does not have, engines differ: V8 rolls over into the next month
\* (lenient), the others yield NaN.
NewDate(cs, lenient) ==
  LET y == DigitVal(cs[1]) * 1000 + DigitVal(cs[2]) * 100
           + DigitVal(cs[3]) * 10 + DigitVal(cs[4])
      m == DigitVal(cs[6]) * 10 + DigitVal(cs[7])
      d == DigitVal(cs[9]) * 10 + DigitVal(cs[10])
  IN  IF m < 1 \/ m > 12 \/ d < 1 \/ d > 31 THEN InvalidDate
      ELSE IF d > DaysInMonth(y, m) /\ ~lenient THEN InvalidDate
      ELSE DateAt(DaysFromCivil(y, m, d), 0)

\* a > b that lets the day after b pass.
DateGreater_DayOff(a, b) ==
  /\ a.valid /\ b.valid
  /\ a.day > b.day + 1

\* a > b and a < b on Dates; every comparison with NaN is false.
DateGreater(a, b) ==
  /\ a.valid /\ b.valid
  /\ (a.day > b.day \/ (a.day = b.day /\ a.ms > b.ms))

\* a < b written as a <= b.
DateLess_OrEqual(a, b) ==
  /\ a.valid /\ b.valid
  /\ (a.day < b.day \/ (a.day = b.day /\ a.ms <= b.ms))

DateLess(a, b) == DateGreater(b, a)

\* The catalog start mistyped as 1990-06-16.
MinDateChars_1990 == <<"1", "9", "9", "0", "-", "0", "6", "-", "1", "6">>

\* new Date('1995-06-16') (api.js:196)
MinDateChars == <<"1", "9", "9", "5", "-", "0", "6", "-", "1", "6">>

\* The instants new Date() may read (api.js:195): 2026-11-05, at midnight
\* UTC and at noon UTC.
NowChoices ==
  { DateAt(DaysFromCivil(2026, 11, 5), 0), DateAt(DaysFromCivil(2026, 11, 5), 43200000) }

\* A date that parses to an invalid Date rejected as badly formatted.
validateDate_ChecksValidity(date, today, lenient) ==
  IF ~date.present \/ date.chars = <<>> THEN Value("{valid: true}", 0)
  ELSE IF ~dateRegexTest(date.chars) \/ ~NewDate(date.chars, lenient).valid
    THEN APIError("Invalid date format. Please use YYYY-MM-DD format.",
                  ErrorTypes.VALIDATION, 400, FALSE, 0)
  ELSE LET selectedDate == NewDate(date.chars, lenient)
           minDate == NewDate(MinDateChars, lenient)
       IN  IF DateGreater(selectedDate, today)
             THEN APIError("Date cannot be in the future.",
                           ErrorTypes.VALIDATION, 400, FALSE, 0)
           ELSE IF DateLess(selectedDate, minDate)
             THEN APIError("Date must be after June 16, 1995 (APOD start date).",
                           ErrorTypes.VALIDATION, 400, FALSE, 0)
           ELSE Value("{valid: true}", 0)

validateDate(date, today, lenient) ==
  IF ~date.present \/ date.chars = <<>> THEN Value("{valid: true}", 0)
  ELSE IF ~dateRegexTest(date.chars)
    THEN APIError("Invalid date format. Please use YYYY-MM-DD format.",
                  ErrorTypes.VALIDATION, 400, FALSE, 0)
  ELSE LET selectedDate == NewDate(date.chars, lenient)
           minDate == NewDate(MinDateChars, lenient)
       IN  IF DateGreater(selectedDate, today)
             THEN APIError("Date cannot be in the future.",
                           ErrorTypes.VALIDATION, 400, FALSE, 0)
           ELSE IF DateLess(selectedDate, minDate)
             THEN APIError("Date must be after June 16, 1995 (APOD start date).",
                           ErrorTypes.VALIDATION, 400, FALSE, 0)
           ELSE Value("{valid: true}", 0)

\* ---------------------------------------------------------------------------
\* simulateError (errorTest.js:182-222)
\* ---------------------------------------------------------------------------

\* The errorType arguments: the six kinds and a string that is none of them.
SimulateTypes == SixKinds \cup {"TIMEOUT_ERROR"}

\* The message arguments: omitted ('' by default) or given.
SimulateMessages == {"", "custom message"}

\* errorMessages[errorType] (errorTest.js:183-190); a missing key reads
\* undefined.
errorMessages(errorType) ==
  IF errorType = ErrorTypes.NETWORK
    THEN "Network connection issue. Please check your internet connection and try again."
  ELSE IF errorType = ErrorTypes.SERVER THEN "Server error. Please try again later."
  ELSE IF errorType = ErrorTypes.CLIENT THEN "Invalid request. Please check your input."
  ELSE IF errorType = ErrorTypes.RATE_LIMIT
    THEN "Too many requests. Please wait a moment and try again."
  ELSE IF errorType = ErrorTypes.VALIDATION THEN "Invalid input provided."
  ELSE IF errorType = ErrorTypes.UNKNOWN THEN "An unexpected error occurred."
  ELSE "undefined"

\* statusCodes[errorType] || 0 (errorTest.js:201-212)
getStatusCodeForErrorType(errorType) ==
  IF errorType = ErrorTypes.SERVER THEN 500
  ELSE IF errorType \in {ErrorTypes.CLIENT, ErrorTypes.VALIDATION} THEN 400
  ELSE IF errorType = ErrorTypes.RATE_LIMIT THEN 429
  ELSE 0

\* The list of retryable types with CLIENT_ERROR added to it.
isRetryableErrorType_WithClient(errorType) ==
  errorType \in {ErrorTypes.NETWORK, ErrorTypes.SERVER, ErrorTypes.RATE_LIMIT,
                 ErrorTypes.CLIENT}

\* retryableTypes.includes(errorType) (errorTest.js:214-222)
isRetryableErrorType(errorType) ==
  errorType \in {ErrorTypes.NETWORK, ErrorTypes.SERVER, ErrorTypes.RATE_LIMIT}

\* simulateError(errorType, message = '') (errorTest.js:182-198)
simulateError(errorType, message) ==
  APIError(IF message # "" THEN message ELSE errorMessages(errorType),
           errorType, getStatusCodeForErrorType(errorType),
           isRetryableErrorType(errorType), 0)

\* ---------------------------------------------------------------------------
\* APODViewer: values (ErrorBoundary.jsx:242-476, api.js:238-257)
\* ---------------------------------------------------------------------------

\* new Date().toISOString().split('T')[0] at construction
\* (ErrorBoundary.jsx:246): the UTC day of NowChoices.
InitialSelectedDate == Str(<<"2", "0", "2", "6", "-", "1", "1", "-", "0", "5">>)

\* The values the date input hands to handleDateChange: today, a day of the
\* catalog and a day before the catalog started.
PickableDates ==
  { InitialSelectedDate,
    Str(<<"2", "0", "2", "0", "-", "0", "5", "-", "0", "1">>),
    Str(<<"1", "9", "9", "0", "-", "0", "1", "-", "0", "1">>) }

\* What the server does to a request of the viewer: the data, a page that is
\* not JSON, a 404 and a 500 with an error body.
ViewerResponses ==
  { <<200, "successTrue">>, <<200, "notJSON">>, <<404, "error">>, <<500, "error">> }

\* What a call of apiService.fetchAPOD settles with in those cases and when
\* the connection fails: the outcome the operation has for it.
ApiOutcomes ==
  { fetchAPODOperation(fetchWithRetryResponse(r[1], r[2], 0), 0) : r \in ViewerResponses }
  \cup { fetchAPODOperation(
            fetchWithRetryReject(RawError("TypeError", "Failed to fetch", NoStatus, 0), 0),
            0) }

\* getErrorMessage(error) (api.js:238-257); no error of the model has an
\* empty message.
getErrorMessage(e) ==
  IF e.cls = "APIError" /\ e.type = ErrorTypes.NETWORK
    THEN "Network connection issue. Please check your internet connection and try again."
  ELSE IF e.cls = "APIError" /\ e.type = ErrorTypes.SERVER
    THEN "Server error. Please try again later."
  ELSE IF e.cls = "APIError" /\ e.type = ErrorTypes.RATE_LIMIT
    THEN "Too many requests. Please wait a moment and try again."
  ELSE e.msg

NoError == "null"
OfflineFetchMessage ==
  "Cannot fetch data while offline. Please check your internet connection."
OfflineMessage == "You are currently offline. Please check your internet connection."
SpeechFailedMessage ==
  "Speech synthesis failed. Please try again or check your audio settings."

\* apodData: null, or the data fetched for a date. newest records the date
\* of the data delivered by the fetch that started last among those that
\* have delivered.
NoApod == [has |-> FALSE, date |-> NoDate, newest |-> NoDate]
Apod(date, newest) == [has |-> TRUE, date |-> date, newest |-> newest]

\* The values a fetchAPOD function object reads from the render that created
\* it: isOnline, selectedDate and retryCount (ErrorBoundary.jsx:309-346).
Closure(online, date, rc) == [online |-> online, date |-> date, rc |-> rc]

\* The options of the rate select, in percent; 100 is useState(1).
PlaybackRates == {100, 150}
InitialPlaybackRate == 100

\* window.speechSynthesis: the utterance it holds ("none", "queued" before
\* its start event, "speaking"), its paused flag, the rate of that utterance,
\* whether the 100 ms restart timer created it and the rate handleRateChange
\* had been given then.
Synth(state, paused, rate, restart, wanted) ==
  [state |-> state, paused |-> paused, rate |-> rate, restart |-> restart,
   wanted |-> wanted]
IdleSynth(paused) == Synth("none", paused, 0, FALSE, 0)


\* ---------------------------------------------------------------------------
\* State
\* ---------------------------------------------------------------------------

CallIds == 1..MaxCalls

\* The frame of a withRetry call: where it stands, its retryCount parameter,
\* the invocations it has made, what each did and the delays it has waited.
IdleCall ==
  [pc |-> "idle", retryCount |-> 0, invocations |-> 0, log |-> <<>>, delays |-> <<>>]

VARIABLES
  pc,           \* "idle", "invoking", "waiting", "returned", "thrown"
  op,           \* the operation of the call in progress, "none" when idle
  retryCount,   \* withRetry's retryCount parameter
  invocations,  \* invocations of the operation made by the current call
  log,          \* per invocation of the current call, what it did (LogTag)
  delays,       \* the backoff delays the current call has waited or is waiting
  lastOutcome,  \* what the last completed invocation returned or threw
  wire,         \* what fetch() settled with in the last completed invocation
  fwrOutcome,   \* what the last completed fetchWithRetry returned or threw
  result,       \* what the call returned or threw to its caller
  timerArmed,   \* the timeout timer of the request in flight is pending
  staleTimers,  \* timeout timers of finished requests that are still pending
  dateArg,      \* the argument of the validateDate call that has just finished
  clock,        \* what new Date() read in that call
  calls         \* the withRetry calls in progress side by side, one record each

\* APODViewer
VARIABLES
  mounted,          \* the mount effects have run
  apodData,         \* useState(null)
  loading,          \* useState(false)
  viewerError,      \* useState(null): the viewer's error, the message shown
  selectedDate,     \* useState(today)
  isOnline,         \* useState(navigator.onLine)
  viewerRetryCount, \* useState(0): the viewer's retryCount
  isPlaying,        \* useState(false)
  isPaused,         \* useState(false)
  playbackRate,     \* useState(1), in percent
  inflight,         \* the fetchAPOD calls awaiting apiService.fetchAPOD, oldest
                    \* first: closure, number in its chain of attempts, whether
                    \* isOnline was false when it began, whether a call begun
                    \* later has delivered its data
  retryTimers,      \* the pending auto-retry timers, each with its closure (a set)
  synth,            \* window.speechSynthesis
  staleEvents,      \* cancelled utterances whose end/error event is still to come
  restartTimers     \* the pending setTimeout(startSpeech, 100) timers

viewerVars == <<mounted, apodData, loading, viewerError, selectedDate, isOnline,
                viewerRetryCount, isPlaying, isPaused, playbackRate, inflight,
                retryTimers, synth, staleEvents, restartTimers>>

vars == <<pc, op, retryCount, invocations, log, delays, lastOutcome, wire,
          fwrOutcome, result, timerArmed, staleTimers, dateArg, clock, calls,
          viewerVars>>

Init ==
  /\ pc = "idle"
  /\ op = "none"
  /\ retryCount = 0
  /\ invocations = 0
  /\ log = <<>>
  /\ delays = <<>>
  /\ lastOutcome = NoOutcome
  /\ wire = NoWire
  /\ fwrOutcome = NoOutcome
  /\ result = NoOutcome
  /\ timerArmed = FALSE
  /\ staleTimers = 0
  /\ dateArg = NoDate
  /\ clock = InvalidDate
  /\ calls = [c \in CallIds |-> IdleCall]
  /\ mounted = FALSE
  /\ apodData = NoApod
  /\ loading = FALSE
  /\ viewerError = NoError
  /\ selectedDate = InitialSelectedDate
  /\ isOnline \in BOOLEAN
  /\ viewerRetryCount = 0
  /\ isPlaying = FALSE
  /\ isPaused = FALSE
  /\ playbackRate = InitialPlaybackRate
  /\ inflight = <<>>
  /\ retryTimers = {}
  /\ synth = IdleSynth(FALSE)
  /\ staleEvents = 0
  /\ restartTimers = {}

\* ---------------------------------------------------------------------------
\* withRetry (api.js:133-147)
\* ---------------------------------------------------------------------------

\* The rethrow condition with the budget test off by one.
Rethrows_OffByOne(count, error) ==
  count > RETRY_CONFIG.maxRetries \/ ~isRetryableError(error)

\* The rethrow condition giving up one retry early.
Rethrows_EarlyStop(count, error) ==
  count >= RETRY_CONFIG.maxRetries - 1 \/ ~isRetryableError(error)

\* The rethrow condition without the retryability test.
Rethrows_BudgetOnly(count, error) ==
  count >= RETRY_CONFIG.maxRetries

\* The condition under which the catch block rethrows (api.js:137).
Rethrows(count, error) ==
  count >= RETRY_CONFIG.maxRetries \/ ~isRetryableError(error)

\* What an invocation did, in the terms of the error taxonomy: it returned a
\* value, threw an APIError whose retryable flag is set or is not set, or
\* threw something that is not an APIError.
LogTag(outcome) ==
  IF outcome.kind = "value" THEN "success"
  ELSE IF outcome.cls # "APIError" THEN "raw"
  ELSE IF outcome.retryable THEN "retryable"
  ELSE "nonretryable"

\* withRetry calling itself again at once, without waiting for the delay.
WithRetrySettles_NoWait(outcome) ==
  /\ lastOutcome' = outcome
  /\ log' = Append(log, LogTag(outcome))
  /\ delays' = delays
  /\ op' = op
  /\ IF outcome.kind = "value"
       THEN pc' = "returned" /\ result' = outcome
                             /\ UNCHANGED <<retryCount, invocations>>
       ELSE IF Rethrows(retryCount, outcome)
         THEN pc' = "thrown" /\ result' = outcome
                             /\ UNCHANGED <<retryCount, invocations>>
         ELSE /\ pc' = "invoking"
              /\ result' = result
              /\ retryCount' = retryCount + 1
              /\ invocations' = invocations + 1

\* withRetry resumes after `await fetchFn()` settled with `outcome`: return
\* the value, rethrow the error, or start the backoff delay.
WithRetrySettles(outcome) ==
  /\ lastOutcome' = outcome
  /\ log' = Append(log, LogTag(outcome))
  /\ IF outcome.kind = "value"
       THEN /\ pc' = "returned"
            /\ result' = outcome
            /\ delays' = delays
       ELSE IF Rethrows(retryCount, outcome)
         THEN /\ pc' = "thrown"
              /\ result' = outcome
              /\ delays' = delays
         ELSE /\ pc' = "waiting"
              /\ result' = result
              /\ delays' = Append(delays, calculateRetryDelay(retryCount))
  /\ UNCHANGED <<op, retryCount, invocations>>

\* A caller calls apiService.fetchAPOD / healthCheck, or withRetry with an
\* operation of its own; withRetry makes the first invocation.
Call(o) ==
  /\ UNCHANGED <<calls, viewerVars>>
  /\ pc = "idle"
  /\ o \in FetchOps => staleTimers + 1 <= MaxTimers
  /\ pc' = "invoking"
  /\ op' = o
  /\ retryCount' = 0
  /\ invocations' = 1
  /\ log' = <<>>
  /\ delays' = <<>>
  /\ lastOutcome' = NoOutcome
  /\ wire' = NoWire
  /\ fwrOutcome' = NoOutcome
  /\ result' = NoOutcome
  /\ timerArmed' = (o \in FetchOps)
  /\ UNCHANGED <<staleTimers, dateArg, clock>>

\* The invocation of a caller-supplied operation settles.
MockSettles ==
  /\ UNCHANGED <<calls, viewerVars>>
  /\ pc = "invoking"
  /\ op = "mock"
  /\ \E outcome \in MockOutcomes(invocations) : WithRetrySettles(outcome)
  /\ UNCHANGED <<wire, fwrOutcome, timerArmed, staleTimers, dateArg, clock>>

\* fetch() resolves with a response: the timer is cleared (api.js:69), the
\* status is examined and the operation reads the body.
FetchResponds ==
  /\ UNCHANGED <<calls, viewerVars>>
  /\ pc = "invoking"
  /\ op \in FetchOps
  /\ \E status \in Statuses, body \in Bodies :
       LET r == fetchWithRetryResponse(status, body, invocations)
       IN  /\ wire' = [tag |-> "response", status |-> status, text |-> body]
           /\ fwrOutcome' = r
           /\ WithRetrySettles(Operation(op, r, invocations))
  /\ timerArmed' = FALSE
  /\ UNCHANGED <<staleTimers, dateArg, clock>>

\* The 10 second timer fires while fetch() is pending: controller.abort()
\* makes fetch() reject with an AbortError (api.js:62).
FetchTimesOut ==
  /\ UNCHANGED <<calls, viewerVars>>
  /\ pc = "invoking"
  /\ op \in FetchOps
  /\ timerArmed
  /\ LET r == fetchWithRetryReject(
                RawError("AbortError", "The user aborted a request.", NoStatus,
                         invocations), invocations)
     IN  /\ wire' = [tag |-> "timeout", status |-> NoStatus, text |-> "none"]
         /\ fwrOutcome' = r
         /\ WithRetrySettles(Operation(op, r, invocations))
  /\ timerArmed' = FALSE
  /\ UNCHANGED <<staleTimers, dateArg, clock>>

\* fetch() rejects at transport level (DNS, connection): control jumps to the
\* catch block, past clearTimeout, so the timer stays pending.
FetchRejects ==
  /\ UNCHANGED <<calls, viewerVars>>
  /\ pc = "invoking"
  /\ op \in FetchOps
  /\ \E m \in TransportMessages :
       LET r == fetchWithRetryReject(RawError("TypeError", m, NoStatus, invocations),
                                     invocations)
       IN  /\ wire' = [tag |-> "reject", status |-> NoStatus, text |-> m]
           /\ fwrOutcome' = r
           /\ WithRetrySettles(Operation(op, r, invocations))
  /\ timerArmed' = FALSE
  /\ staleTimers' = staleTimers + 1
  /\ UNCHANGED <<dateArg, clock>>

\* The backoff delay elapses: withRetry(fetchFn, retryCount + 1) invokes the
\* operation again (api.js:144-145).
DelayElapses ==
  /\ UNCHANGED <<calls, viewerVars>>
  /\ pc = "waiting"
  /\ op \in FetchOps => staleTimers + 1 <= MaxTimers
  /\ pc' = "invoking"
  /\ retryCount' = retryCount + 1
  /\ invocations' = invocations + 1
  /\ timerArmed' = (op \in FetchOps)
  /\ wire' = NoWire
  /\ UNCHANGED <<op, log, delays, lastOutcome, fwrOutcome, result, staleTimers,
                 dateArg, clock>>

\* A caller calls apiService.validateDate(date); the call is synchronous.
ValidateDate ==
  /\ UNCHANGED <<calls, viewerVars>>
  /\ pc = "idle"
  /\ \E date \in DateInputs, today \in NowChoices, lenient \in BOOLEAN :
       LET r == validateDate(date, today, lenient)
       IN  /\ dateArg' = date
           /\ clock' = today
           /\ result' = r
           /\ pc' = IF r.kind = "value" THEN "returned" ELSE "thrown"
  /\ op' = "validateDate"
  /\ UNCHANGED <<retryCount, invocations, log, delays, lastOutcome, wire,
                 fwrOutcome, timerArmed, staleTimers>>

\* A caller calls simulateError(errorType, message), which returns the error
\* it built.
SimulateError ==
  /\ UNCHANGED <<calls, viewerVars>>
  /\ pc = "idle"
  /\ \E errorType \in SimulateTypes, message \in SimulateMessages :
       result' = simulateError(errorType, message)
  /\ pc' = "returned"
  /\ op' = "simulateError"
  /\ UNCHANGED <<retryCount, invocations, log, delays, lastOutcome, wire,
                 fwrOutcome, timerArmed, staleTimers, dateArg, clock>>

\* A timer left behind by a finished request fires; its controller's request
\* is over, so nothing else happens.
StaleTimerFires ==
  /\ UNCHANGED <<calls, viewerVars>>
  /\ staleTimers > 0
  /\ staleTimers' = staleTimers - 1
  /\ UNCHANGED <<pc, op, retryCount, invocations, log, delays, lastOutcome,
                 wire, fwrOutcome, result, timerArmed, dateArg, clock>>

\* The caller has consumed the result; the client is ready for the next call.
Finish ==
  /\ UNCHANGED <<calls, viewerVars>>
  /\ pc \in {"returned", "thrown"}
  /\ pc' = "idle"
  /\ op' = "none"
  /\ retryCount' = 0
  /\ invocations' = 0
  /\ log' = <<>>
  /\ delays' = <<>>
  /\ lastOutcome' = NoOutcome
  /\ wire' = NoWire
  /\ fwrOutcome' = NoOutcome
  /\ result' = NoOutcome
  /\ dateArg' = NoDate
  /\ clock' = InvalidDate
  /\ UNCHANGED <<timerArmed, staleTimers>>

Next ==
  \/ \E o \in Ops : Call(o)
  \/ MockSettles
  \/ FetchResponds
  \/ FetchTimesOut
  \/ FetchRejects
  \/ DelayElapses
  \/ ValidateDate
  \/ SimulateError
  \/ StaleTimerFires
  \/ Finish

Spec == Init /\ [][Next]_vars

\* ---------------------------------------------------------------------------
\* Several withRetry calls side by side
\* ---------------------------------------------------------------------------

singleVars == <<pc, op, retryCount, invocations, log, delays, lastOutcome, wire,
                fwrOutcome, result, timerArmed, staleTimers, dateArg, clock>>

\* withRetry(fetchFn): retryCount takes its default 0 and the operation is
\* invoked (api.js:133-135).
StartedCall ==
  [pc |-> "invoking", retryCount |-> 0, invocations |-> 1, log |-> <<>>,
   delays |-> <<>>]

\* The frame after `await fetchFn()` settled with `outcome` (api.js:135-144).
SettledCall(frame, outcome) ==
  LET logged == [frame EXCEPT !.log = Append(@, LogTag(outcome))]
  IN  IF outcome.kind = "value"
        THEN [logged EXCEPT !.pc = "returned"]
      ELSE IF Rethrows(frame.retryCount, outcome)
        THEN [logged EXCEPT !.pc = "thrown"]
      ELSE [logged EXCEPT !.pc = "waiting",
                          !.delays = Append(@, calculateRetryDelay(frame.retryCount))]

\* withRetry(fetchFn, retryCount + 1) (api.js:145).
RetriedCall(frame) ==
  [frame EXCEPT !.pc = "invoking", !.retryCount = @ + 1, !.invocations = @ + 1]

CallStarts(c) ==
  /\ calls[c].pc = "idle"
  /\ calls' = [calls EXCEPT ![c] = StartedCall]
  /\ UNCHANGED <<singleVars, viewerVars>>

CallSettles(c) ==
  /\ calls[c].pc = "invoking"
  /\ \E outcome \in MockOutcomes(calls[c].invocations) :
       calls' = [calls EXCEPT ![c] = SettledCall(calls[c], outcome)]
  /\ UNCHANGED <<singleVars, viewerVars>>

\* The delay of call c elapses, with the attempt counter kept in one place
\* for all calls: every call in progress sees it advance.
CallDelayElapses_SharedCounter(c) ==
  /\ calls[c].pc = "waiting"
  /\ calls' = [x \in CallIds |->
                IF x = c THEN RetriedCall(calls[c])
                ELSE IF calls[x].pc \in {"invoking", "waiting"}
                  THEN [calls[x] EXCEPT !.retryCount = @ + 1]
                ELSE calls[x]]
  /\ UNCHANGED <<singleVars, viewerVars>>

CallDelayElapses(c) ==
  /\ calls[c].pc = "waiting"
  /\ calls' = [calls EXCEPT ![c] = RetriedCall(calls[c])]
  /\ UNCHANGED <<singleVars, viewerVars>>

\* The caller of call c has consumed its result.
CallEnds(c) ==
  /\ calls[c].pc \in {"returned", "thrown"}
  /\ calls' = [calls EXCEPT ![c] = IdleCall]
  /\ UNCHANGED <<singleVars, viewerVars>>

NextCalls ==
  \E c \in CallIds :
    \/ CallStarts(c)
    \/ CallSettles(c)
    \/ CallDelayElapses(c)
    \/ CallEnds(c)

SpecCalls == Init /\ [][NextCalls]_vars

\* Every invocation of the operation settles (the request is answered, fails
\* or is aborted by its timer), and every timer that is set fires.
Fairness ==
  /\ WF_vars(MockSettles)
  /\ WF_vars(FetchResponds \/ FetchTimesOut \/ FetchRejects)
  /\ WF_vars(DelayElapses)
  /\ WF_vars(StaleTimerFires)

FairSpec == Spec /\ Fairness

\* ---------------------------------------------------------------------------
\* APODViewer (ErrorBoundary.jsx:242-476)
\* ---------------------------------------------------------------------------

apiVars == <<singleVars, calls>>

RemoveAt(seq, i) == [j \in 1..(Len(seq) - 1) |-> IF j < i THEN seq[j] ELSE seq[j + 1]]

\* What a specification lets be pending at once: maxPending fetchAPOD calls
\* and auto-retry timers, a viewer retryCount of maxFailures and chains of one
\* attempt more, maxSpeech outstanding utterance events and restart timers.
\* Every action takes such a condition on the state it leads to.
Within(maxPending, maxFailures, maxSpeech) ==
  /\ Len(inflight) + Cardinality(retryTimers) <= maxPending
  /\ viewerRetryCount <= maxFailures
  /\ \A i \in 1..Len(inflight) : inflight[i].attempt <= maxFailures + 1
  /\ staleEvents + Cardinality(restartTimers) <= maxSpeech

\* speechSynthesis.cancel(): the utterance is dropped and its end or error
\* event is still to be delivered; engines differ on whether the paused flag
\* survives.
PausedAfterCancel == {synth.paused, FALSE}
StaleAfterCancel == IF synth.state # "none" THEN staleEvents + 1 ELSE staleEvents

\* stopSpeech() leaving isPaused as it was.
stopSpeech_KeepsPaused ==
  /\ \E p \in PausedAfterCancel : synth' = IdleSynth(p)
  /\ staleEvents' = StaleAfterCancel
  /\ isPlaying' = FALSE
  /\ isPaused' = isPaused

\* stopSpeech() (ErrorBoundary.jsx:438-447)
stopSpeech ==
  /\ \E p \in PausedAfterCancel : synth' = IdleSynth(p)
  /\ staleEvents' = StaleAfterCancel
  /\ isPlaying' = FALSE
  /\ isPaused' = FALSE

\* The auto-retry made for an error of any type.
AutoRetries_AnyType(err, c) ==
  c.rc < 2

\* The auto-retry test of the catch block (ErrorBoundary.jsx:334-335), made
\* on the retryCount of the closure.
AutoRetries(err, c) ==
  /\ err.type \in {ErrorTypes.NETWORK, ErrorTypes.SERVER}
  /\ c.rc < 2

\* The catch and finally blocks of fetchAPOD (ErrorBoundary.jsx:325-345) for
\* the error err, in the call with closure c that is attempt number `attempt`
\* of its chain; timers are the timers pending otherwise. Two timers that
\* are equal in everything are not told apart, so no second one is set.
fetchAPODCatch(err, c, attempt, timers) ==
  /\ viewerError' = getErrorMessage(err)
  /\ viewerRetryCount' = viewerRetryCount + 1
  /\ loading' = FALSE
  /\ IF AutoRetries(err, c)
       THEN LET t == [closure |-> c, attempt |-> attempt + 1,
                      delay |-> 2000 * (c.rc + 1)]
            IN  /\ t \notin timers
                /\ retryTimers' = timers \cup {t}
       ELSE retryTimers' = timers

\* fetchAPOD() up to its await (ErrorBoundary.jsx:309-324), called on the
\* function object with closure c.
fetchAPOD(c, attempt, timers) ==
  IF ~c.online
    THEN /\ viewerError' = OfflineFetchMessage
         /\ retryTimers' = timers
         /\ UNCHANGED <<apodData, loading, viewerRetryCount, inflight, synth,
                        staleEvents, isPlaying, isPaused>>
    ELSE /\ stopSpeech
         /\ apodData' = apodData
         /\ \E today \in NowChoices, lenient \in BOOLEAN :
              LET v == validateDate(c.date, today, lenient)
              IN  IF v.kind = "error"
                    THEN /\ fetchAPODCatch(v, c, attempt, timers)
                         /\ inflight' = inflight
                    ELSE /\ loading' = TRUE
                         /\ viewerError' = NoError
                         /\ inflight' = Append(inflight, [closure |-> c,
                                                          attempt |-> attempt,
                                                          offline |-> ~isOnline,
                                                          stale |-> FALSE])
                         /\ retryTimers' = timers
                         /\ viewerRetryCount' = viewerRetryCount

\* The closure of the handlers of the current render.
CurrentClosure == Closure(isOnline, selectedDate, viewerRetryCount)

\* The mount effect (ErrorBoundary.jsx:474-476) calls fetchAPOD of the first
\* render.
Mount(within) ==
  /\ ~mounted
  /\ mounted' = TRUE
  /\ fetchAPOD(CurrentClosure, 1, retryTimers)
  /\ UNCHANGED <<selectedDate, isOnline, playbackRate, restartTimers>>
  /\ UNCHANGED apiVars
  /\ within

\* A click on the fetch button or on the retry button of the error panel,
\* both disabled while loading or offline (ErrorBoundary.jsx:596-597,
\* 677-678).
ClickFetch(within) ==
  /\ mounted
  /\ ~loading
  /\ isOnline
  /\ fetchAPOD(CurrentClosure, 1, retryTimers)
  /\ UNCHANGED <<mounted, selectedDate, isOnline, playbackRate, restartTimers>>
  /\ UNCHANGED apiVars
  /\ within

\* An auto-retry timer fires and calls the fetchAPOD that scheduled it
\* (ErrorBoundary.jsx:336-339).
AutoRetryFires(within) ==
  /\ \E t \in retryTimers : fetchAPOD(t.closure, t.attempt, retryTimers \ {t})
  /\ UNCHANGED <<mounted, selectedDate, isOnline, playbackRate, restartTimers>>
  /\ UNCHANGED apiVars
  /\ within

\* apiService.fetchAPOD settles with one of outcomes and the fetchAPOD that
\* awaited it goes on (ErrorBoundary.jsx:322-345).
FetchSettles(outcomes, within) ==
  /\ \E i \in 1..Len(inflight), outcome \in outcomes :
       LET f == inflight[i]
       IN  IF outcome.kind = "value"
             THEN /\ apodData' = Apod(f.closure.date,
                                      IF f.stale THEN apodData.newest
                                                 ELSE f.closure.date)
                  /\ viewerRetryCount' = 0
                  /\ loading' = FALSE
                  /\ inflight' = RemoveAt([j \in 1..Len(inflight) |->
                                            IF j < i
                                              THEN [inflight[j] EXCEPT !.stale = TRUE]
                                              ELSE inflight[j]], i)
                  /\ UNCHANGED <<viewerError, retryTimers>>
             ELSE /\ fetchAPODCatch(outcome, f.closure, f.attempt, retryTimers)
                  /\ inflight' = RemoveAt(inflight, i)
                  /\ apodData' = apodData
  /\ UNCHANGED <<mounted, selectedDate, isOnline, playbackRate, restartTimers,
                 synth, staleEvents, isPlaying, isPaused>>
  /\ UNCHANGED apiVars
  /\ within

\* handleDateChange(newDate) from the date input, disabled while loading
\* (ErrorBoundary.jsx:348-351, 574-577).
HandleDateChange ==
  /\ mounted
  /\ ~loading
  /\ \E newDate \in PickableDates : selectedDate' = newDate
  /\ viewerError' = NoError
  /\ UNCHANGED <<mounted, apodData, loading, isOnline, viewerRetryCount, isPlaying,
                 isPaused, playbackRate, inflight, retryTimers, synth, staleEvents,
                 restartTimers>>
  /\ UNCHANGED apiVars

\* The browser comes online (ErrorBoundary.jsx:263-266).
HandleOnline ==
  /\ mounted
  /\ ~isOnline
  /\ isOnline' = TRUE
  /\ viewerError' = NoError
  /\ UNCHANGED <<mounted, apodData, loading, selectedDate, viewerRetryCount,
                 isPlaying, isPaused, playbackRate, inflight, retryTimers, synth,
                 staleEvents, restartTimers>>
  /\ UNCHANGED apiVars

\* The browser goes offline (ErrorBoundary.jsx:268-271).
HandleOffline ==
  /\ mounted
  /\ isOnline
  /\ isOnline' = FALSE
  /\ viewerError' = OfflineMessage
  /\ UNCHANGED <<mounted, apodData, loading, selectedDate, viewerRetryCount,
                 isPlaying, isPaused, playbackRate, inflight, retryTimers, synth,
                 staleEvents, restartTimers>>
  /\ UNCHANGED apiVars

\* The viewer with every answer of the server, dates and network changes,
\* one fetch or timer pending at a time.
ViewerWithin == Within(MaxPending, MaxFailures, 0)

NextViewer ==
  \/ Mount(ViewerWithin')
  \/ ClickFetch(ViewerWithin')
  \/ AutoRetryFires(ViewerWithin')
  \/ FetchSettles(ApiOutcomes, ViewerWithin')
  \/ HandleDateChange
  \/ HandleOnline
  \/ HandleOffline

SpecViewer == Init /\ [][NextViewer]_vars

\* The viewer online, with a server that delivers the data or is not
\* reached, and fetches overlapping.
OverlapOutcomes ==
  { o \in ApiOutcomes : o.kind = "value" \/ o.type = ErrorTypes.NETWORK }

OverlapWithin == Within(MaxOverlap, MaxOverlapFailures, 0)

NextOverlap ==
  \/ Mount(OverlapWithin')
  \/ ClickFetch(OverlapWithin')
  \/ AutoRetryFires(OverlapWithin')
  \/ FetchSettles(OverlapOutcomes, OverlapWithin')
  \/ HandleDateChange

SpecOverlap == Init /\ [][NextOverlap]_vars

\* ---------------------------------------------------------------------------
\* APODViewer: narration (ErrorBoundary.jsx:368-472, 746-854)
\* ---------------------------------------------------------------------------

fetchVars == <<mounted, apodData, loading, selectedDate, isOnline, viewerRetryCount,
               inflight, retryTimers>>

\* startSpeech() (ErrorBoundary.jsx:368-414) of a render whose playbackRate
\* is rate and whose apodData is or is not null: stopSpeech(), then a new
\* utterance with that rate is handed to speechSynthesis.speak(). restart
\* tells that the restart timer made the call, for the rate `wanted`.
startSpeech(hasData, rate, restart, wanted) ==
  IF ~hasData
    THEN UNCHANGED <<synth, staleEvents, isPlaying, isPaused>>
    ELSE /\ \E p \in PausedAfterCancel :
              synth' = Synth("queued", p, rate, restart, wanted)
         /\ staleEvents' = StaleAfterCancel
         /\ isPlaying' = FALSE
         /\ isPaused' = FALSE

\* The play button, shown while isPlaying is false (ErrorBoundary.jsx:746-748).
ClickStart(within) ==
  /\ apodData.has
  /\ ~isPlaying
  /\ startSpeech(apodData.has, playbackRate, FALSE, playbackRate)
  /\ UNCHANGED <<viewerError, playbackRate, restartTimers>>
  /\ UNCHANGED fetchVars
  /\ UNCHANGED apiVars
  /\ within

\* utterance.onstart (ErrorBoundary.jsx:387-390): the engine begins to speak
\* the utterance it holds.
UtteranceStarts ==
  /\ synth.state = "queued"
  /\ synth' = [synth EXCEPT !.state = "speaking"]
  /\ isPlaying' = TRUE
  /\ isPaused' = FALSE
  /\ UNCHANGED <<viewerError, playbackRate, restartTimers, staleEvents>>
  /\ UNCHANGED fetchVars
  /\ UNCHANGED apiVars

\* utterance.onend (ErrorBoundary.jsx:392-396): the utterance has been spoken
\* to its end.
UtteranceEnds ==
  /\ synth.state = "speaking"
  /\ ~synth.paused
  /\ synth' = IdleSynth(FALSE)
  /\ isPlaying' = FALSE
  /\ isPaused' = FALSE
  /\ UNCHANGED <<viewerError, playbackRate, restartTimers, staleEvents>>
  /\ UNCHANGED fetchVars
  /\ UNCHANGED apiVars

\* utterance.onerror (ErrorBoundary.jsx:398-403): the engine gives the
\* utterance up.
UtteranceErrors ==
  /\ synth.state # "none"
  /\ synth' = IdleSynth(synth.paused)
  /\ isPlaying' = FALSE
  /\ isPaused' = FALSE
  /\ viewerError' = SpeechFailedMessage
  /\ UNCHANGED <<playbackRate, restartTimers, staleEvents>>
  /\ UNCHANGED fetchVars
  /\ UNCHANGED apiVars

\* What a cancelled utterance still delivers: its end event, an error event
\* ('interrupted', 'canceled'), or nothing.
StaleEventArrives ==
  /\ staleEvents > 0
  /\ staleEvents' = staleEvents - 1
  /\ \E kind \in {"end", "error", "none"} :
       /\ IF kind = "none"
            THEN UNCHANGED <<isPlaying, isPaused>>
            ELSE isPlaying' = FALSE /\ isPaused' = FALSE
       /\ viewerError' = IF kind = "error" THEN SpeechFailedMessage ELSE viewerError
  /\ UNCHANGED <<synth, playbackRate, restartTimers>>
  /\ UNCHANGED fetchVars
  /\ UNCHANGED apiVars

\* speechSynthesis.speaking: true while an utterance is spoken; engines
\* differ for an utterance that has not begun.
SpeakingReadings ==
  IF synth.state = "speaking" THEN {TRUE}
  ELSE IF synth.state = "queued" THEN BOOLEAN
  ELSE {FALSE}

\* pauseSpeech() (ErrorBoundary.jsx:416-425) from the pause button, shown
\* while isPlaying and not isPaused (ErrorBoundary.jsx:766-768).
ClickPause ==
  /\ apodData.has
  /\ isPlaying
  /\ ~isPaused
  /\ \E speaking \in SpeakingReadings :
       IF speaking /\ ~synth.paused
         THEN /\ synth' = [synth EXCEPT !.paused = TRUE]
              /\ isPaused' = TRUE
         ELSE UNCHANGED <<synth, isPaused>>
  /\ UNCHANGED <<isPlaying, viewerError, playbackRate, restartTimers, staleEvents>>
  /\ UNCHANGED fetchVars
  /\ UNCHANGED apiVars

\* resumeSpeech() (ErrorBoundary.jsx:427-436) from the resume button, shown
\* while isPlaying and isPaused (ErrorBoundary.jsx:783).
ClickResume ==
  /\ apodData.has
  /\ isPlaying
  /\ isPaused
  /\ IF synth.paused
       THEN /\ synth' = [synth EXCEPT !.paused = FALSE]
            /\ isPaused' = FALSE
       ELSE UNCHANGED <<synth, isPaused>>
  /\ UNCHANGED <<isPlaying, viewerError, playbackRate, restartTimers, staleEvents>>
  /\ UNCHANGED fetchVars
  /\ UNCHANGED apiVars

\* The stop button, shown while isPlaying (ErrorBoundary.jsx:798).
ClickStop(within) ==
  /\ apodData.has
  /\ isPlaying
  /\ stopSpeech
  /\ UNCHANGED <<viewerError, playbackRate, restartTimers>>
  /\ UNCHANGED fetchVars
  /\ UNCHANGED apiVars
  /\ within

\* handleRateChange(rate) (ErrorBoundary.jsx:458-472) from the rate slider,
\* which reports a value other than the one it shows. The restart timer gets
\* the startSpeech of the current render, whose playbackRate is the old one.
HandleRateChange(within) ==
  /\ apodData.has
  /\ \E rate \in PlaybackRates \ {playbackRate} :
       /\ playbackRate' = rate
       /\ IF isPlaying /\ ~isPaused
            THEN LET t == [hasData |-> apodData.has, rate |-> playbackRate,
                           wanted |-> rate]
                 IN  /\ stopSpeech
                     /\ t \notin restartTimers
                     /\ restartTimers' = restartTimers \cup {t}
            ELSE UNCHANGED <<synth, staleEvents, isPlaying, isPaused, restartTimers>>
  /\ UNCHANGED viewerError
  /\ UNCHANGED fetchVars
  /\ UNCHANGED apiVars
  /\ within

\* The 100 ms timer of handleRateChange fires (ErrorBoundary.jsx:466).
RestartFires(within) ==
  /\ \E t \in restartTimers :
       /\ startSpeech(t.hasData, t.rate, TRUE, t.wanted)
       /\ restartTimers' = restartTimers \ {t}
  /\ UNCHANGED <<viewerError, playbackRate>>
  /\ UNCHANGED fetchVars
  /\ UNCHANGED apiVars
  /\ within

\* The viewer with its narration controls, online, the date left alone, with
\* a server that delivers the data or is not reached.
NarrationWithin == Within(MaxPending, MaxNarrationFailures, MaxSpeechPending)

NextNarration ==
  \/ Mount(NarrationWithin')
  \/ ClickFetch(NarrationWithin')
  \/ AutoRetryFires(NarrationWithin')
  \/ FetchSettles(OverlapOutcomes, NarrationWithin')
  \/ ClickStart(NarrationWithin')
  \/ UtteranceStarts
  \/ UtteranceEnds
  \/ UtteranceErrors
  \/ StaleEventArrives
  \/ ClickPause
  \/ ClickResume
  \/ ClickStop(NarrationWithin')
  \/ HandleRateChange(NarrationWithin')
  \/ RestartFires(NarrationWithin')

SpecNarration == Init /\ [][NextNarration]_vars

\* ---------------------------------------------------------------------------
\* Properties
\* ---------------------------------------------------------------------------

AllRetryable == \A i \in 1..Len(log) : log[i] = "retryable"

\* C1: withRetry makes at most maxRetries (3) retries, hence at most 4
\* invocations of the operation per call; when every invocation fails with a
\* retryable error the operation is invoked exactly 4 times and the error
\* thrown is the one the 4th invocation raised.
C1_RetryBudget ==
  /\ invocations <= RETRY_CONFIG.maxRetries + 1
  /\ retryCount <= RETRY_CONFIG.maxRetries
  /\ Len(delays) <= RETRY_CONFIG.maxRetries
  /\ (pc = "thrown" /\ op \in Ops /\ AllRetryable)
       => /\ invocations = RETRY_CONFIG.maxRetries + 1
          /\ Len(log) = RETRY_CONFIG.maxRetries + 1
          /\ result = lastOutcome
          /\ result.seq = RETRY_CONFIG.maxRetries + 1

C1_Witness ==
  /\ pc = "thrown"
  /\ op = "mock"
  /\ log = <<"retryable", "retryable", "retryable", "retryable">>
  /\ invocations = 4
  /\ result.seq = 4

\* C2: an operation that fails with a retryable error on its first two
\* invocations and succeeds on the third makes withRetry return that value
\* after exactly 3 invocations: the call goes on after each of the two
\* failures and makes no invocation after the success.
C2_FailTwiceThenSucceed ==
  /\ (Len(log) \in {1, 2} /\ AllRetryable) => pc \in {"waiting", "invoking"}
  /\ (Len(log) >= 3 /\ log[1] = "retryable" /\ log[2] = "retryable"
        /\ log[3] = "success")
       => /\ pc = "returned"
          /\ Len(log) = 3
          /\ invocations = 3
          /\ result = lastOutcome
          /\ result.kind = "value"
          /\ result.seq = 3

C2_Witness ==
  /\ pc = "returned"
  /\ op = "mock"
  /\ log = <<"retryable", "retryable", "success">>
  /\ invocations = 3
  /\ result.msg = "Retry successful!"

\* C3: an operation that fails with a non-retryable error is invoked exactly
\* once; withRetry waits for no backoff delay and throws that very error.
C3_NonRetryableOnce ==
  (Len(log) >= 1 /\ log[1] = "nonretryable")
    => /\ pc = "thrown"
       /\ Len(log) = 1
       /\ invocations = 1
       /\ delays = <<>>
       /\ result = lastOutcome
       /\ result.kind = "error"
       /\ result.seq = 1

C3_Witness ==
  /\ pc = "thrown"
  /\ op = "mock"
  /\ log = <<"nonretryable">>
  /\ result.type = ErrorTypes.CLIENT
  /\ delays = <<>>

IsClassified(e) ==
  e.kind = "error" /\ e.cls = "APIError" /\ e.type \in SixKinds

\* C4: every error that fetchAPOD, healthCheck or validateDate throws to its
\* caller is an APIError of one of the six kinds, whichever step of the call
\* failed.
C4_OnlyClassifiedErrors ==
  (pc = "thrown" /\ op \in FetchOps \cup {"validateDate"}) => IsClassified(result)

\* C5: for every response status >= 500 fetchWithRetry throws an APIError of
\* kind Server, retryable, whose status is the response's status.
C5_ServerStatus ==
  (wire.tag = "response" /\ wire.status >= 500)
    => /\ IsClassified(fwrOutcome)
       /\ fwrOutcome.type = ErrorTypes.SERVER
       /\ fwrOutcome.retryable
       /\ fwrOutcome.status = wire.status

\* C6: for response status 429 fetchWithRetry throws an APIError of kind
\* RateLimit that is retryable.
C6_RateLimitStatus ==
  (wire.tag = "response" /\ wire.status = 429)
    => /\ IsClassified(fwrOutcome)
       /\ fwrOutcome.type = ErrorTypes.RATE_LIMIT
       /\ fwrOutcome.retryable

\* C7: for every response status in [400,429) or (429,500) fetchWithRetry
\* throws an APIError of kind Client that is not retryable, and withRetry
\* does not repeat the request.
C7_ClientStatus ==
  (wire.tag = "response" /\ wire.status >= 400 /\ wire.status < 500
     /\ wire.status # 429)
    => /\ IsClassified(fwrOutcome)
       /\ fwrOutcome.type = ErrorTypes.CLIENT
       /\ ~fwrOutcome.retryable
       /\ pc = "thrown"
       /\ result = fwrOutcome

\* C8: fetchWithRetry returns the response itself exactly when the status is
\* 2xx; for a non-2xx status below 400 it throws an APIError of kind Unknown
\* that is not retryable.
C8_OkOrUnknown ==
  wire.tag = "response"
    => /\ (fwrOutcome.kind = "response") <=> (wire.status >= 200 /\ wire.status <= 299)
       /\ fwrOutcome.kind = "response"
            => (fwrOutcome.status = wire.status /\ fwrOutcome.msg = wire.text)
       /\ fwrOutcome.kind # "response" => IsClassified(fwrOutcome)
       /\ (wire.status < 400 /\ ~(wire.status >= 200 /\ wire.status <= 299))
            => /\ IsClassified(fwrOutcome)
               /\ fwrOutcome.type = ErrorTypes.UNKNOWN
               /\ ~fwrOutcome.retryable

C8_Witness ==
  /\ wire.tag = "response"
  /\ wire.status = 304
  /\ wire.text = "empty"
  /\ fwrOutcome.type = ErrorTypes.UNKNOWN
  /\ fwrOutcome.status = 304
  /\ pc = "thrown"

\* C9: when the timeout fires before the request completes, fetchWithRetry
\* throws an APIError of kind Network that is retryable, and withRetry
\* retries the request while retries remain.
C9_TimeoutIsNetwork ==
  wire.tag = "timeout"
    => /\ IsClassified(fwrOutcome)
       /\ fwrOutcome.type = ErrorTypes.NETWORK
       /\ fwrOutcome.retryable
       /\ lastOutcome = fwrOutcome
       /\ retryCount < RETRY_CONFIG.maxRetries => pc = "waiting"
       /\ retryCount >= RETRY_CONFIG.maxRetries
            => (pc = "thrown" /\ result = fwrOutcome)

C9_Witness ==
  /\ wire.tag = "timeout"
  /\ pc = "waiting"
  /\ fwrOutcome.type = ErrorTypes.NETWORK
  /\ fwrOutcome.status = 408
  /\ retryCount = 2

\* C10: every rejection of fetch() that is not the timeout is classified as
\* kind Network, retryable, whatever the text of the exception's message.
C10_TransportIsNetwork ==
  wire.tag = "reject"
    => /\ IsClassified(fwrOutcome)
       /\ fwrOutcome.type = ErrorTypes.NETWORK
       /\ fwrOutcome.retryable

\* C11: the request's timeout timer is cleared on every path out of
\* fetchWithRetry (2xx response, non-2xx response, transport failure): once
\* the request has settled no timer armed for it is still pending.
C11_TimerAlwaysCleared ==
  /\ staleTimers = 0
  /\ pc # "invoking" => ~timerArmed

\* C12: the delay before retry number k (k = 0, 1, 2) is
\* min(1000 * 2^k, 10000) ms, that is 1000, 2000, 4000; within a call the
\* delays do not decrease and none exceeds 10000 ms.
C12_BackoffDelays ==
  /\ Len(delays) <= 3
  /\ \A i \in 1..Len(delays) :
       /\ delays[i] = <<1000, 2000, 4000>>[i]
       /\ delays[i] <= 10000
  /\ \A i \in 1..Len(delays), j \in 1..Len(delays) : i <= j => delays[i] <= delays[j]
  /\ pc = "waiting" => Len(delays) = retryCount + 1
  /\ pc = "invoking" => Len(delays) = retryCount

C12_Witness ==
  /\ pc = "thrown"
  /\ delays = <<1000, 2000, 4000>>
  /\ retryCount = 3

\* The decision withRetry has just taken on the failure of an invocation.
JustDecided == pc \in {"waiting", "thrown"} /\ lastOutcome.kind = "error"

\* C13: whether withRetry retries or propagates depends only on the
\* failure's retryable flag and the attempt count: it retries exactly when
\* the flag is set and fewer than 3 retries have been made, and nothing else
\* about the thrown error (class, name, message, status) matters.
C13_FlagAndCountOnly ==
  JustDecided
    => (pc = "waiting"
          <=> (lastOutcome.retryable /\ retryCount < RETRY_CONFIG.maxRetries))

\* C13 as amended: for a failure that is an APIError the decision depends
\* only on its retryable flag and the attempt count; a failure that is not an
\* APIError is retried, while retries remain, exactly when it is a TypeError
\* whose message contains 'fetch' or its status is at least 500.
C13_FlagAndCountForAPIError ==
  JustDecided
    => /\ lastOutcome.cls = "APIError"
            => (pc = "waiting"
                  <=> (lastOutcome.retryable /\ retryCount < RETRY_CONFIG.maxRetries))
       /\ lastOutcome.cls # "APIError"
            => (pc = "waiting"
                  <=> /\ retryCount < RETRY_CONFIG.maxRetries
                      /\ \/ (lastOutcome.cls = "TypeError"
                               /\ lastOutcome.msg \in
                                    {"Failed to fetch", "fetch failed",
                                     "NetworkError when attempting to fetch resource."})
                         \/ lastOutcome.status >= 500)

C13_Witness ==
  /\ pc = "thrown"
  /\ op = "mock"
  /\ lastOutcome.cls = "TypeError"
  /\ lastOutcome.msg = "Load failed"
  /\ retryCount = 1
  /\ log = <<"raw", "raw">>

\* C14: the invocations of one withRetry call are strictly sequential:
\* invocation k+1 starts only after invocation k has failed and its backoff
\* delay has elapsed, so at most one invocation is in flight.
C14_SequentialInvocations ==
  op \in Ops
    => /\ pc = "invoking"
            => /\ Len(log) = invocations - 1
               /\ Len(delays) = invocations - 1
               /\ \A i \in 1..Len(log) : log[i] # "success"
       /\ pc \in {"waiting", "returned", "thrown"} => Len(log) = invocations
       /\ pc = "waiting" => Len(delays) = invocations

C14_Witness ==
  /\ pc = "invoking"
  /\ op = "fetchAPOD"
  /\ invocations = 3
  /\ Len(log) = 2
  /\ delays = <<1000, 2000>>

\* The strings of DateInputs that do not have the shape YYYY-MM-DD:
\* "2020/05/01", "2020-5-1" and "invalid-date".
MalformedInputs ==
  { Str(<<"2", "0", "2", "0", "/", "0", "5", "/", "0", "1">>),
    Str(<<"2", "0", "2", "0", "-", "5", "-", "1">>),
    Str(<<"i", "n", "v", "a", "l", "i", "d", "-", "d", "a", "t", "e">>) }

\* <<year, month, day>> written in a string of the shape YYYY-MM-DD.
YMD(cs) ==
  << DigitVal(cs[1]) * 1000 + DigitVal(cs[2]) * 100 + DigitVal(cs[3]) * 10
       + DigitVal(cs[4]),
     DigitVal(cs[6]) * 10 + DigitVal(cs[7]),
     DigitVal(cs[9]) * 10 + DigitVal(cs[10]) >>

\* The argument is a string YYYY-MM-DD that names a day of the calendar.
WellFormedDate(date) ==
  /\ date.present
  /\ date \notin MalformedInputs
  /\ Len(date.chars) = 10
  /\ YMD(date.chars)[2] \in 1..12
  /\ YMD(date.chars)[3] >= 1
  /\ YMD(date.chars)[3] <= DaysInMonth(YMD(date.chars)[1], YMD(date.chars)[2])

\* a is an earlier calendar day than b.
YMDBefore(a, b) ==
  \/ a[1] < b[1]
  \/ (a[1] = b[1] /\ a[2] < b[2])
  \/ (a[1] = b[1] /\ a[2] = b[2] /\ a[3] < b[3])

CatalogStartYMD == <<1995, 6, 16>>

\* The calendar day (UTC) of every instant in NowChoices.
TodayYMD == <<2026, 11, 5>>

ThrewValidation(message) ==
  /\ pc = "thrown"
  /\ IsClassified(result)
  /\ result.type = ErrorTypes.VALIDATION
  /\ ~result.retryable
  /\ result.msg = message

C18_BeforeCatalogStart ==
  (op = "validateDate" /\ WellFormedDate(dateArg)
     /\ YMDBefore(YMD(dateArg.chars), CatalogStartYMD))
    => ThrewValidation("Date must be after June 16, 1995 (APOD start date).")

C18_Witness ==
  /\ op = "validateDate"
  /\ dateArg = Str(<<"1", "9", "9", "5", "-", "0", "6", "-", "1", "5">>)
  /\ pc = "thrown"
  /\ result.type = ErrorTypes.VALIDATION

\* C19: validateDate fails with a Validation error for every well-formed
\* date that lies after the current moment.
C19_FutureDate ==
  (op = "validateDate" /\ WellFormedDate(dateArg)
     /\ YMDBefore(TodayYMD, YMD(dateArg.chars)))
    => ThrewValidation("Date cannot be in the future.")

C19_Witness ==
  /\ op = "validateDate"
  /\ dateArg = Str(<<"2", "0", "2", "6", "-", "1", "1", "-", "0", "6">>)
  /\ clock.ms = 43200000
  /\ pc = "thrown"
  /\ result.msg = "Date cannot be in the future."

\* C20: validateDate returns the success marker for every well-formed date
\* from the catalog start 1995-06-16 to the current moment, both included.
C20_InRangeAccepted ==
  (op = "validateDate" /\ WellFormedDate(dateArg)
     /\ ~YMDBefore(YMD(dateArg.chars), CatalogStartYMD)
     /\ ~YMDBefore(TodayYMD, YMD(dateArg.chars)))
    => /\ pc = "returned"
       /\ result.kind = "value"
       /\ result.msg = "{valid: true}"

C20_Witness ==
  /\ op = "validateDate"
  /\ dateArg = Str(<<"1", "9", "9", "5", "-", "0", "6", "-", "1", "6">>)
  /\ pc = "returned"
  /\ result.msg = "{valid: true}"

\* The three ways a withRetry call ends.
EndedWithValue ==
  pc = "returned" /\ result.kind = "value" /\ result = lastOutcome

\* The failures withRetry treats as retryable: an APIError whose flag is set,
\* or an error of another class that is a TypeError mentioning 'fetch' or
\* carries a status of at least 500.
RetryableFailure(e) ==
  \/ e.cls = "APIError" /\ e.retryable
  \/ /\ e.cls # "APIError"
     /\ \/ (e.cls = "TypeError"
              /\ e.msg \in {"Failed to fetch", "fetch failed",
                            "NetworkError when attempting to fetch resource."})
        \/ e.status >= 500

EndedNonRetryable ==
  /\ pc = "thrown" /\ result.kind = "error" /\ result = lastOutcome
  /\ ~RetryableFailure(result)

EndedExhausted ==
  /\ pc = "thrown" /\ result.kind = "error" /\ result = lastOutcome
  /\ RetryableFailure(result)
  /\ retryCount = RETRY_CONFIG.maxRetries
  /\ invocations = RETRY_CONFIG.maxRetries + 1

ExactlyOneEnding ==
  /\ EndedWithValue \/ EndedNonRetryable \/ EndedExhausted
  /\ ~(EndedWithValue /\ EndedNonRetryable)
  /\ ~(EndedWithValue /\ EndedExhausted)
  /\ ~(EndedNonRetryable /\ EndedExhausted)

\* C16: provided every invocation of the operation eventually settles, a
\* withRetry call always terminates, and it ends in exactly one of three
\* ways: it returns a value, it throws an error that is not retryable, or it
\* throws the last error after the 3 retries are used up.
C16_Terminates ==
  /\ [](op \in Ops /\ pc \in {"returned", "thrown"} => ExactlyOneEnding)
  /\ (op \in Ops /\ pc \in {"invoking", "waiting"})
       ~> (op \in Ops /\ pc \in {"returned", "thrown"})

C16_Witness ==
  /\ op = "healthCheck"
  /\ EndedExhausted
  /\ delays = <<1000, 2000, 4000>>
  /\ wire.tag = "timeout"

\* C15: attempt counters are per call: every call starts at attempt 0, and
\* with several calls in progress at once the failures of one neither use up
\* the retries of another nor change its delays: each call's retryCount is
\* the number of its own retries, its k-th delay is 1000 * 2^(k-1), and a
\* call whose invocations all fail retryably still gets its 4 invocations.
C15_CountersPerCall ==
  \A c \in CallIds :
    LET f == calls[c]
    IN  /\ f.pc # "idle" => f.retryCount = f.invocations - 1
        /\ (f.pc = "invoking" /\ f.log = <<>>) => f.retryCount = 0
        /\ f.pc = "invoking" => Len(f.log) = f.retryCount
        /\ f.pc \in {"waiting", "returned", "thrown"} => Len(f.log) = f.retryCount + 1
        /\ \A i \in 1..Len(f.delays) : f.delays[i] = <<1000, 2000, 4000>>[i]
        /\ f.pc = "waiting" => Len(f.delays) = f.retryCount + 1
        /\ f.pc \in {"invoking", "returned", "thrown"} => Len(f.delays) = f.retryCount
        /\ (f.pc = "thrown" /\ \A i \in 1..Len(f.log) : f.log[i] = "retryable")
             => f.invocations = 4

C15_Witness ==
  /\ calls[1].pc = "waiting"
  /\ calls[1].retryCount = 2
  /\ calls[1].delays = <<1000, 2000, 4000>>
  /\ calls[2].pc = "invoking"
  /\ calls[2].retryCount = 0
  /\ calls[2].invocations = 1

\* C23: apiService.fetchAPOD treats a 2xx response whose JSON body has
\* success = false as a failure: it raises an APIError of kind Server,
\* retryable, carrying the response's status; withRetry retries it within the
\* budget of 4 requests and throws it after the 4th; the call returns
\* data.data, and only for a body whose success is true.
C23_SuccessFalseIsServerError ==
  /\ (op = "fetchAPOD" /\ wire.tag = "response" /\ ResponseOk(wire.status)
        /\ wire.text = "successFalse")
       => /\ IsClassified(lastOutcome)
          /\ lastOutcome.type = ErrorTypes.SERVER
          /\ lastOutcome.retryable
          /\ lastOutcome.status = wire.status
          /\ lastOutcome.msg = "Failed to fetch APOD data"
          /\ invocations <= RETRY_CONFIG.maxRetries + 1
          /\ IF invocations <= RETRY_CONFIG.maxRetries
               THEN pc = "waiting"
               ELSE pc = "thrown" /\ result = lastOutcome
  /\ (op = "fetchAPOD" /\ pc = "returned")
       => /\ wire.tag = "response"
          /\ ResponseOk(wire.status)
          /\ wire.text = "successTrue"
          /\ result.kind = "value"
          /\ result.msg = "data.data"

C23_Witness ==
  /\ op = "fetchAPOD"
  /\ pc = "thrown"
  /\ wire.tag = "response"
  /\ wire.status = 200
  /\ wire.text = "successFalse"
  /\ invocations = 4
  /\ result.type = ErrorTypes.SERVER

\* C30: validateDate tests the shape of the string and makes the two range
\* comparisons, nothing else: 2020-13-01 matches the pattern, parses to an
\* invalid date, fails neither comparison and is accepted with the success
\* marker; an empty or absent date is accepted as well.
C30_InvalidMonthAccepted ==
  (op = "validateDate"
     /\ dateArg \in { NoDate, Str(<<>>),
                      Str(<<"2", "0", "2", "0", "-", "1", "3", "-", "0", "1">>) })
    => /\ pc = "returned"
       /\ result.kind = "value"
       /\ result.msg = "{valid: true}"
       /\ (dateArg.present /\ dateArg.chars # <<>>)
            => /\ dateRegexTest(dateArg.chars)
               /\ \A lenient \in BOOLEAN : ~NewDate(dateArg.chars, lenient).valid

C30_Witness ==
  /\ op = "validateDate"
  /\ dateArg = Str(<<"2", "0", "2", "0", "-", "1", "3", "-", "0", "1">>)
  /\ pc = "returned"
  /\ result.msg = "{valid: true}"

\* The kinds the taxonomy marks retryable.
RetryableKinds == {ErrorTypes.NETWORK, ErrorTypes.SERVER, ErrorTypes.RATE_LIMIT}

FlagMatchesKind(e) ==
  e.cls = "APIError" => (e.retryable <=> e.type \in RetryableKinds)

\* C28: every APIError built by fetchWithRetry, by apiService.fetchAPOD, by
\* apiService.validateDate and by simulateError has retryable = true exactly
\* when its kind is Network, Server or RateLimit; one of kind Client,
\* Validation or Unknown is never retryable.
C28_RetryableMatchesKind ==
  op \in FetchOps \cup {"validateDate", "simulateError"}
    => /\ FlagMatchesKind(fwrOutcome)
       /\ FlagMatchesKind(lastOutcome)
       /\ FlagMatchesKind(result)

C28_Witness ==
  /\ op = "simulateError"
  /\ pc = "returned"
  /\ result.cls = "APIError"
  /\ result.type = ErrorTypes.CLIENT
  /\ result.status = 400
  /\ ~result.retryable

\* ---------------------------------------------------------------------------
\* Properties of the viewer
\* ---------------------------------------------------------------------------

\* validateDate throws for the date whatever the clock reads.
DateRejected(date) ==
  \A today \in NowChoices, lenient \in BOOLEAN :
    validateDate(date, today, lenient).kind = "error"

BeforeCatalog == Str(<<"1", "9", "9", "0", "-", "0", "1", "-", "0", "1">>)

\* C21: when validateDate fails inside the viewer's fetchAPOD, the Validation
\* error is surfaced at once: no request is issued (apiService.fetchAPOD, and
\* with it withRetry, is not entered), no auto-retry timer is scheduled, the
\* error's message is shown and loading is off.
C21_ValidationSurfaced ==
  [][ ((Mount(TRUE) \/ ClickFetch(TRUE)) /\ isOnline /\ DateRejected(selectedDate))
        => /\ inflight' = inflight
           /\ retryTimers' = retryTimers
           /\ UNCHANGED apiVars
           /\ \E today \in NowChoices :
                LET v == validateDate(selectedDate, today, FALSE)
                IN  /\ v.type = ErrorTypes.VALIDATION
                    /\ ~v.retryable
                    /\ viewerError' = v.msg
           /\ ~loading'
           /\ apodData' = apodData ]_vars

C21_Witness ==
  /\ mounted
  /\ isOnline
  /\ selectedDate = BeforeCatalog
  /\ viewerError = "Date must be after June 16, 1995 (APOD start date)."
  /\ viewerRetryCount = 1
  /\ inflight = <<>>
  /\ retryTimers = {}
  /\ ~loading

\* C22: one mount- or user-initiated fetch makes at most 3 fetchAPOD attempts
\* in total, the first one and at most 2 auto-retries.
C22_AtMostThreeAttempts ==
  \A i \in 1..Len(inflight) : inflight[i].attempt <= 3

\* C24: once no fetch is in flight, the apodData displayed is the result of
\* the fetch that started last; the result of a fetch that started earlier,
\* for another date, has not replaced it.
C24_LatestFetchWins ==
  (inflight = <<>> /\ apodData.has) => apodData.date = apodData.newest

\* C25: fetchAPOD issues no request while the viewer's isOnline is false,
\* also when an auto-retry timer calls it.
C25_NoRequestWhileOffline ==
  \A i \in 1..Len(inflight) : ~inflight[i].offline

\* C26: loading is true exactly when at least one fetchAPOD call is in
\* flight.
C26_LoadingIffInFlight ==
  loading <=> inflight # <<>>

\* C27: the utterance that the restart timer of handleRateChange(rate) starts
\* has the rate that was selected.
C27_RestartUsesNewRate ==
  synth.restart => synth.rate = synth.wanted

\* The steps in which a fetchAPOD that passes its online test begins.
OnlineFetchBegins ==
  \/ (Mount(TRUE) \/ ClickFetch(TRUE)) /\ isOnline
  \/ AutoRetryFires(TRUE) /\ \A t \in retryTimers : t.closure.online

\* C29: in every state of the narration controls isPaused implies isPlaying;
\* right after stopSpeech and right after a fetchAPOD that is online begins,
\* isPlaying and isPaused are both false.
C29_PausedImpliesPlaying ==
  /\ [](isPaused => isPlaying)
  /\ [][ (ClickStop(TRUE) \/ OnlineFetchBegins) => (~isPlaying' /\ ~isPaused') ]_vars

C29_Witness ==
  /\ isPlaying
  /\ isPaused
  /\ synth.state = "speaking"
  /\ synth.paused
  /\ staleEvents > 0

====
